---- MODULE Spec2Model ----
(***************************************************************************)
(* KITTIDataset (smoke/data/datasets/kitti.py): one __getitem__ call on a  *)
(* constructed dataset, as a state machine over the locals of the call.    *)
(*                                                                         *)
(* Numbers.  Probabilities and random.random() outputs are in halves:     *)
(* probability p stands for p/2 and a random output r for the interval     *)
(* [r/2, (r+1)/2), so "random.random() < prob" is r < p.  Image            *)
(* coordinates (center, size, projected points) are integers in units of   *)
(* 1/SubPx pixel, which keeps every jittered center and size exact.        *)
(* Output-grid regions are in tenths of a grid cell.                       *)
(***************************************************************************)
EXTENDS Integers, Sequences, FiniteSets, TLC

\* ------------------------------------------------------------------ bounds
NumSamples == 3          \* frames listed in the image-set file

\* ------------------------------------------------------- configuration
max_objs == 2            \* cfg.DATASETS.MAX_OBJECTS
input_width == 20        \* cfg.INPUT.WIDTH_TRAIN
input_height == 8        \* cfg.INPUT.HEIGHT_TRAIN
DOWN_RATIO == 2          \* cfg.MODEL.BACKBONE.DOWN_RATIO
output_width == input_width \div DOWN_RATIO
output_height == input_height \div DOWN_RATIO
shift_scale == <<1, 1>>   \* cfg.INPUT.SHIFT_SCALE_TRAIN, in tenths

Tenths == 10             \* the 0.1 step of the jitter ranges and of left_ratio
SubPx == 2 * Tenths      \* coordinate units per pixel

Prob == {0, 1}           \* 0 and 1/2
Rand == {0, 1}           \* random.random() in [0,1/2) or [1/2,1)

TYPE_ID_CONVERSION == [Car |-> 0, Cyclist |-> 1, Pedestrian |-> 2]
classes == {"Car", "Cyclist", "Pedestrian"}
num_classes == Cardinality(classes)

\* ------------------------------------------------------ files on disk
\* Three kinds of frame, repeated over the image set.
Kind(idx) == ((idx - 1) % 3) + 1

ImageWidth(idx) == IF Kind(idx) = 3 THEN 20 ELSE 10
ImageHeight(idx) == 4

Row(type, x) ==
    [type |-> type, dl |-> 4, dh |-> 2, dw |-> 2, lx |-> x, ly |-> 0, lz |-> 1, ry |-> 1]

\* The rows of label_2/<idx>.txt.
LabelFile(idx) ==
    CASE Kind(idx) = 1 -> << Row("Car", -3), Row("Van", 0), Row("Cyclist", 2) >>
      [] Kind(idx) = 2 -> << Row("Pedestrian", 4), Row("Car", -2), Row("Car", 8),
                             Row("Cyclist", -1) >>
      [] OTHER         -> << Row("Car", -4), Row("DontCare", 3) >>

\* The P2: and P3: rows of calib/<idx>.txt, reshaped 3x4.
CalibFile(idx) ==
    LET cx == IF Kind(idx) = 1 THEN 5 ELSE IF Kind(idx) = 2 THEN 4 ELSE 10
    IN [P2 |-> << <<1, 0, cx, 0>>, <<0, 1, 2, 0>>, <<0, 0, 1, 0>> >>,
        P3 |-> << <<1, 0, cx, -1>>, <<0, 1, 2, 0>>, <<0, 0, 1, 0>> >>]

\* Image.open: the pixel columns of <dir>/<idx>.png, each tagged with its origin.
ImageOpen(dir, idx) ==
    [size |-> <<ImageWidth(idx), ImageHeight(idx)>>,
     pixels |-> [c \in 1..ImageWidth(idx) |-> <<dir, idx, c>>],
     noise |-> {}]

NoImage == [size |-> <<0, 0>>, pixels |-> <<>>, noise |-> {}]

\* ---------------------------------------------------- load_annotations
RECURSIVE ParseRows(_, _)
ParseRows(rows, train) ==
    IF rows = <<>> \/ ~train THEN <<>>
    ELSE LET row == Head(rows)
             rest == ParseRows(Tail(rows), train)
         IN IF row.type \in classes
            THEN << [class |-> row.type,
                     label |-> TYPE_ID_CONVERSION[row.type],
                     dimensions |-> <<row.dl, row.dh, row.dw>>,
                     locations |-> <<row.lx, row.ly, row.lz>>,
                     rot_y |-> row.ry] >> \o rest
            ELSE rest

\* The files load_annotations opens: the label file only in train mode.
FilesRead(idx, train) ==
    (IF train THEN {<<"label_2", idx>>} ELSE {}) \cup {<<"calib", idx>>}

load_annotations(idx, train) ==
    [annotations |-> ParseRows(LabelFile(idx), train),
     P2 |-> CalibFile(idx).P2,
     P3 |-> CalibFile(idx).P3]

\* ------------------------------------------------------------ geometry
\* encode_label's keypoint: the location projected by P, homogeneous divide by
\* the third row, in SubPx units.
KeyPoint(Pm, locs) ==
    LET h(r) == Pm[r][1] * locs[1] + Pm[r][2] * locs[2] + Pm[r][3] * locs[3] + Pm[r][4]
    IN << (h(1) * SubPx) \div h(3), (h(2) * SubPx) \div h(3) >>

\* get_transfrom_matrix: the affine map taking the window center +- size/2 of the
\* source image onto the rectangle [0,dst[1]] x [0,dst[2]], kept as its parameters.
get_transfrom_matrix(center_size, dst) ==
    [center |-> center_size[1], size |-> center_size[2], dst |-> dst]

\* affine_transform: the image of a point, as exact fractions num[k] / den[k].
affine_transform(point, t) ==
    [num |-> << (point[1] - t.center[1] + t.size[1] \div 2) * t.dst[1],
                (point[2] - t.center[2] + t.size[2] \div 2) * t.dst[2] >>,
     den |-> << t.size[1], t.size[2] >>]

\* region[0] < point[0] < region[1] and region[2] < point[1] < region[3],
\* the region being in tenths of a grid cell.
InRegion(point, reg) ==
    /\ reg[1] * point.den[1] < Tenths * point.num[1]
    /\ Tenths * point.num[1] < reg[2] * point.den[1]
    /\ reg[3] * point.den[2] < Tenths * point.num[2]
    /\ Tenths * point.num[2] < reg[4] * point.den[2]

\* point.astype(np.int32)
PointInt(point) == << point.num[1] \div point.den[1], point.num[2] \div point.den[2] >>

\* img.transform(..., Image.AFFINE, data = inverse of the input-size transform):
\* output column xo samples the source column under its centre, black outside.
Resample(image, t) ==
    LET W == image.size[1]
        col(xo) == ((2 * xo + 1) * t.size[1] + (2 * t.center[1] - t.size[1]) * t.dst[1])
                       \div (2 * t.dst[1] * SubPx)
    IN [size |-> t.dst,
        pixels |-> [c \in 1..t.dst[1] |->
                      IF col(c - 1) >= 0 /\ col(c - 1) < W
                      THEN image.pixels[col(c - 1) + 1] ELSE <<"fill", 0, 0>>],
        noise |-> image.noise]

\* Faulty variant: the appended row of ones is not zeroed.
ExtendPOnes(Pm) == Pm \o << <<1, 1, 1, 1>> >>

\* np.concatenate((P, np.ones((1, 4))), axis=0); P[3, :3] = 0
ExtendP(Pm) ==
    LET q == Pm \o << <<1, 1, 1, 1>> >>
    IN [q EXCEPT ![4] = [k \in 1..4 |-> IF k <= 3 THEN 0 ELSE q[4][k]]]

FullRegion == <<0, output_width * Tenths, 0, output_height * Tenths>>

\* np.arange(-shift, shift + 0.1, 0.1) and np.arange(1 - scale, 1 + scale + 0.1, 0.1),
\* in tenths.
shift_ranges == (0 - shift_scale[1])..shift_scale[1]
scale_ranges == (Tenths - shift_scale[2])..(Tenths + shift_scale[2])

\* random.uniform(0.3, 0.7), in tenths.
LeftRatios == 3..7

\* ---------------------------------------------------------------- state
VARIABLES
    cfg,          \* the configured probabilities (cfg.INPUT.*_PROB_TRAIN)
    self,         \* the dataset's fields set by __init__
    rnd,          \* what the next random.random() call returns
    pc,           \* position in __getitem__
    idx, P2, P3, anns, anns_list, use_left, P, img, center, size,
    region_list, P_list, flipped, affine,
    mosaic_idx, mosaic_anns, mosaic_P, mosaic_img, left_ratio,
    trans_affine, trans_mat,
    slots,        \* the max_objs rows of cls_ids, proj_points, ..., flip_mask
    heat_map,     \* the peaks stamped, as <<class, point_int>>
    i, region,    \* loop locals; i is bound by both loops
    outer_it,     \* next index of the iterator over range(len(anns_list))
    inner_it,     \* next index of the iterator over enumerate(anns)
    target, err,
    opened,       \* files opened by the call, as <<directory, frame>>
    debug,        \* names written to the debug directory
    fetches,      \* history: the partner indices drawn, in order
    encoded,      \* history: one entry per annotation encoded, in order
    slot_src      \* history: the annotation that last wrote each slot

config == <<cfg, self>>
locals == <<idx, P2, P3, anns, anns_list, use_left, P, img, center, size,
            region_list, P_list, flipped, affine>>
mosaic == <<mosaic_idx, mosaic_anns, mosaic_P, mosaic_img, left_ratio, fetches>>
trans == <<trans_affine, trans_mat>>
buffers == <<slots, heat_map, slot_src, encoded>>
loop == <<i, region, outer_it, inner_it>>
result == <<target, err, debug>>
vars == <<config, rnd, pc, locals, mosaic, trans, buffers, loop, result, opened>>

ProbNames == {"FLIP", "SHIFT_SCALE", "GAUSSIAN_NOISE", "COLOR_CHANGE", "USE_RIGHT", "MOSAIC"}

\* "<cfg value> if is_train else 0"
TrainOnly(is_train, p) == IF is_train THEN p ELSE 0

\* __init__: the fields __getitem__ reads.
NewDataset(c, is_train) ==
    [is_train |-> is_train,
     flip_prob |-> TrainOnly(is_train, c["FLIP"]),
     aug_prob |-> TrainOnly(is_train, c["SHIFT_SCALE"]),
     gaussian_prob |-> TrainOnly(is_train, c["GAUSSIAN_NOISE"]),
     color_prob |-> TrainOnly(is_train, c["COLOR_CHANGE"]),
     right_prob |-> TrainOnly(is_train, c["USE_RIGHT"]),
     mosaic_prob |-> TrainOnly(is_train, c["MOSAIC"]),
     num_samples |-> NumSamples]

ZeroSlot ==
    [cls_id |-> 0, proj_point |-> <<0, 0>>, p_offset |-> <<0, 0>>,
     dimensions |-> <<0, 0, 0>>, locations |-> <<0, 0, 0>>, rotys |-> 0,
     reg_mask |-> 0, flip_mask |-> 0]

NoMatrix == << >>
NoTrans == [center |-> <<0, 0>>, size |-> <<0, 0>>, dst |-> <<0, 0>>]

Init ==
    /\ cfg \in [ProbNames -> Prob]
    /\ \E is_train \in BOOLEAN : self = NewDataset(cfg, is_train)
    /\ rnd \in Rand
    /\ pc = "idle"
    /\ idx = 0 /\ P2 = NoMatrix /\ P3 = NoMatrix /\ anns = <<>> /\ anns_list = <<>>
    /\ use_left = TRUE /\ P = NoMatrix /\ img = NoImage
    /\ center = <<0, 0>> /\ size = <<0, 0>>
    /\ region_list = <<>> /\ P_list = <<>> /\ flipped = FALSE /\ affine = FALSE
    /\ mosaic_idx = 0 /\ mosaic_anns = <<>> /\ mosaic_P = NoMatrix
    /\ mosaic_img = NoImage /\ left_ratio = 0 /\ fetches = <<>>
    /\ trans_affine = NoTrans /\ trans_mat = NoTrans
    /\ slots = <<>> /\ heat_map = {} /\ slot_src = <<>> /\ encoded = <<>>
    /\ i = 0 /\ region = <<0, 0, 0, 0>> /\ outer_it = 0 /\ inner_it = 0
    /\ target = [fields |-> {}, P |-> NoMatrix] /\ err = "none" /\ debug = {}
    /\ opened = {}

\* A call of random.random(): the generator moves on.
Draw == rnd' \in Rand

\* "(self.is_train) and (random.random() < ...)": the draw is made only in train mode.
DrawIfTrain == IF self.is_train THEN Draw ELSE UNCHANGED rnd

\* ------------------------------------------------------------ __getitem__
\* Lines 86-89: load the frame's annotations and calibration.
GetItem(k) ==
    /\ pc = "idle"
    /\ LET la == load_annotations(k, self.is_train)
       IN /\ idx' = k
          /\ anns' = la.annotations
          /\ P2' = la.P2
          /\ P3' = la.P3
          /\ anns_list' = << la.annotations >>
    /\ opened' = opened \cup FilesRead(k, self.is_train)
    /\ pc' = "view"
    /\ UNCHANGED <<config, rnd, use_left, P, img, center, size, region_list, P_list,
                   flipped, affine, mosaic, trans, buffers, loop, result>>

\* Lines 91-106: view selection, image open, default center, size, region and matrix.
UseRight == self.is_train /\ rnd < self.right_prob

SelectView ==
    /\ pc = "view"
    /\ LET dir == IF UseRight THEN "image_3" ELSE "image_2"
           image == ImageOpen(dir, idx)
       IN /\ use_left' = ~UseRight
          /\ P' = IF UseRight THEN P3 ELSE P2
          /\ img' = image
          /\ opened' = opened \cup {<<dir, idx>>}
          /\ center' = << image.size[1] * (SubPx \div 2), image.size[2] * (SubPx \div 2) >>
          /\ size' = << image.size[1] * SubPx, image.size[2] * SubPx >>
    /\ region_list' = << FullRegion >>
    /\ P_list' = << P' >>
    /\ DrawIfTrain
    /\ pc' = "flip"
    /\ UNCHANGED <<config, idx, P2, P3, anns, anns_list, flipped, affine,
                   mosaic, trans, buffers, loop, result>>

\* Lines 112-117: horizontal flip.  P, P2 and P_list[0] are one array, so the
\* in-place update of P[0, 2] shows in all three.
\* Faulty variant: the flip test without the view test.
FlipCondAnyView == self.is_train /\ rnd < self.flip_prob
FlipCond == self.is_train /\ rnd < self.flip_prob /\ use_left

Mirror(Pm, width) == [Pm EXCEPT ![1][3] = width - Pm[1][3] - 1]

Flip ==
    /\ pc = "flip"
    /\ flipped' = FlipCond
    /\ IF FlipCond
       THEN /\ img' = [img EXCEPT !.pixels =
                          [c \in 1..img.size[1] |-> img.pixels[img.size[1] + 1 - c]]]
            /\ center' = [center EXCEPT ![1] = size[1] - center[1] - SubPx]
            /\ P' = Mirror(P, size[1] \div SubPx)
            /\ P2' = IF use_left THEN P' ELSE P2
            /\ P3' = IF use_left THEN P3 ELSE P'
            /\ P_list' = << P' >>
       ELSE UNCHANGED <<img, center, P, P2, P3, P_list>>
    /\ DrawIfTrain
    /\ pc' = "jitter"
    /\ UNCHANGED <<config, idx, anns, anns_list, use_left, size, region_list, affine,
                   mosaic, trans, buffers, loop, result, opened>>

\* Lines 119-128: shift/scale jitter of the virtual center and size.
JitterCond == self.is_train /\ rnd < self.aug_prob

Jitter ==
    /\ pc = "jitter"
    /\ affine' = JitterCond
    /\ IF JitterCond
       THEN \E sx \in shift_ranges, sy \in shift_ranges, sc \in scale_ranges :
               /\ center' = << center[1] + (size[1] * sx) \div Tenths,
                               center[2] + (size[2] * sy) \div Tenths >>
               /\ size' = << (size[1] * sc) \div Tenths, (size[2] * sc) \div Tenths >>
       ELSE UNCHANGED <<center, size>>
    /\ DrawIfTrain
    /\ pc' = "mosaic"
    /\ UNCHANGED <<config, idx, P2, P3, anns, anns_list, use_left, P, img,
                   region_list, P_list, flipped,
                   mosaic, trans, buffers, loop, result, opened>>

\* Line 130: the mosaic gate.  No random number is drawn here.
MosaicCond == self.is_train /\ 0 < self.mosaic_prob /\ ~affine /\ ~flipped

\* Lines 130-140: draw a partner frame, load its annotations, open its image.
MosaicFetch ==
    /\ pc = "mosaic"
    /\ IF MosaicCond
       THEN \E m \in 1..self.num_samples :
               LET la == load_annotations(m, self.is_train)
                   dir == IF use_left THEN "image_2" ELSE "image_3"
               IN /\ mosaic_idx' = m
                  /\ mosaic_anns' = la.annotations
                  /\ mosaic_P' = IF use_left THEN la.P2 ELSE la.P3
                  /\ mosaic_img' = ImageOpen(dir, m)
                  /\ opened' = opened \cup FilesRead(m, self.is_train) \cup {<<dir, m>>}
                  /\ fetches' = Append(fetches, m)
                  /\ pc' = "compose"
       ELSE /\ pc' = "gaussian"
            /\ UNCHANGED <<mosaic_idx, mosaic_anns, mosaic_P, mosaic_img, opened, fetches>>
    /\ UNCHANGED <<config, rnd, locals, left_ratio, trans, buffers, loop, result>>

\* Lines 141-150: compose when the partner's resolution matches, else leave the
\* primary sample as it is.
SameSize == mosaic_img.size = img.size

\* mosaic_img.crop(...) pasted over the right part of img
Paste(image, other, cut) ==
    [image EXCEPT !.pixels =
        [c \in 1..image.size[1] |-> IF c > cut THEN other.pixels[c] ELSE image.pixels[c]]]

Composed(r) ==
    /\ anns_list' = Append(anns_list, mosaic_anns)
    /\ P_list' = Append(P_list, mosaic_P)
    /\ left_ratio' = r
    /\ region_list' = << <<0, r * output_width, 0, output_height * Tenths>>,
                         <<r * output_width, output_width * Tenths, 0,
                           output_height * Tenths>> >>
    /\ img' = Paste(img, mosaic_img, (r * img.size[1]) \div Tenths)

\* Faulty variant: a mismatch sends the call back to draw another partner.
MosaicRetry ==
    /\ pc = "compose"
    /\ IF SameSize
       THEN (\E r \in LeftRatios : Composed(r)) /\ pc' = "gaussian"
       ELSE /\ UNCHANGED <<anns_list, P_list, left_ratio, region_list, img>>
            /\ pc' = IF Len(fetches) < 2 THEN "mosaic" ELSE "gaussian"
    /\ UNCHANGED <<config, rnd, idx, P2, P3, anns, use_left, P, center, size,
                   flipped, affine, mosaic_idx, mosaic_anns, mosaic_P, mosaic_img,
                   fetches, trans, buffers, loop, result, opened>>

\* Faulty variant: the partner is added as a source before its size is tested.
MosaicComposeHoisted ==
    /\ pc = "compose"
    /\ anns_list' = Append(anns_list, mosaic_anns)
    /\ P_list' = Append(P_list, mosaic_P)
    /\ IF SameSize
       THEN \E r \in LeftRatios :
               /\ left_ratio' = r
               /\ region_list' = << <<0, r * output_width, 0, output_height * Tenths>>,
                                    <<r * output_width, output_width * Tenths, 0,
                                      output_height * Tenths>> >>
               /\ img' = Paste(img, mosaic_img, (r * img.size[1]) \div Tenths)
       ELSE /\ UNCHANGED <<left_ratio, img>>
            /\ region_list' = << FullRegion, FullRegion >>
    /\ pc' = "gaussian"
    /\ UNCHANGED <<config, rnd, idx, P2, P3, anns, use_left, P, center, size,
                   flipped, affine, mosaic_idx, mosaic_anns, mosaic_P, mosaic_img,
                   fetches, trans, buffers, loop, result, opened>>

MosaicCompose ==
    /\ pc = "compose"
    /\ IF SameSize
       THEN \E r \in LeftRatios : Composed(r)
       ELSE UNCHANGED <<anns_list, P_list, left_ratio, region_list, img>>
    /\ pc' = "gaussian"
    /\ UNCHANGED <<config, rnd, idx, P2, P3, anns, use_left, P, center, size,
                   flipped, affine, mosaic_idx, mosaic_anns, mosaic_P, mosaic_img,
                   fetches, trans, buffers, loop, result, opened>>

\* Lines 152-155: photometric noise.
Gaussian ==
    /\ pc = "gaussian"
    /\ img' = IF self.is_train /\ rnd < self.gaussian_prob
              THEN [img EXCEPT !.noise = @ \cup {"gaussian"}] ELSE img
    /\ DrawIfTrain
    /\ pc' = "color"
    /\ UNCHANGED <<config, idx, P2, P3, anns, anns_list, use_left, P, center, size,
                   region_list, P_list, flipped, affine,
                   mosaic, trans, buffers, loop, result, opened>>

Color ==
    /\ pc = "color"
    /\ img' = IF self.is_train /\ rnd < self.color_prob
              THEN [img EXCEPT !.noise = @ \cup {"color"}] ELSE img
    /\ DrawIfTrain
    /\ pc' = "transform"
    /\ UNCHANGED <<config, idx, P2, P3, anns, anns_list, use_left, P, center, size,
                   region_list, P_list, flipped, affine,
                   mosaic, trans, buffers, loop, result, opened>>

\* Lines 157-177: both affine transforms from the one (center, size) pair, and
\* the resampling of the image to the input resolution.
Transform ==
    /\ pc = "transform"
    /\ trans_affine' = get_transfrom_matrix(<<center, size>>, <<input_width, input_height>>)
    /\ img' = Resample(img, trans_affine')
    /\ trans_mat' = get_transfrom_matrix(<<center, size>>, <<output_width, output_height>>)
    /\ pc' = IF self.is_train THEN "alloc" ELSE "infer"
    /\ UNCHANGED <<config, rnd, idx, P2, P3, anns, anns_list, use_left, P, center, size,
                   region_list, P_list, flipped, affine,
                   mosaic, buffers, loop, result, opened>>

InferenceFields == {"trans_mat", "P"}
TrainFields ==
    {"hm", "reg", "cls_ids", "proj_p", "dimensions", "locations", "rotys", "trans_mat",
     "P", "reg_mask", "flip_mask", "reg_2d", "p_2d_offsets", "p_2d_whs"}

\* Lines 179-190: the inference-mode return.
ReturnInference ==
    /\ pc = "infer"
    /\ target' = [fields |-> InferenceFields, P |-> ExtendP(P)]
    /\ pc' = "returned"
    /\ UNCHANGED <<config, rnd, locals, mosaic, trans, buffers, loop, err, debug, opened>>

\* Lines 192-205: the zeroed target buffers.
AllocTargets ==
    /\ pc = "alloc"
    /\ slots' = [k \in 0..(max_objs - 1) |-> ZeroSlot]
    /\ slot_src' = [k \in 0..(max_objs - 1) |-> << >>]
    /\ heat_map' = {}
    /\ outer_it' = 0
    /\ pc' = "outer"
    /\ UNCHANGED <<config, rnd, locals, mosaic, trans, encoded, i, region, inner_it,
                   result, opened>>

\* Lines 207-210: the next source of "for i in range(len(anns_list))".  The range
\* iterator keeps its own position; i is only the name it is bound to.
SourceAnns(k) == anns_list[k + 1]
\* Faulty variant: every source is given the first source's region.
SourceRegionFirst(k) == region_list[1]
SourceRegion(k) == region_list[k + 1]
SourceP(k) == P_list[k + 1]

OuterLoop ==
    /\ pc = "outer"
    /\ IF outer_it < Len(anns_list)
       THEN /\ i' = outer_it
            /\ outer_it' = outer_it + 1
            /\ anns' = SourceAnns(i')
            /\ region' = SourceRegion(i')
            /\ P' = SourceP(i')
            /\ inner_it' = 0
            /\ pc' = "inner"
       ELSE /\ pc' = "finish"
            /\ UNCHANGED <<i, outer_it, anns, region, P, inner_it>>
    /\ UNCHANGED <<config, rnd, idx, P2, P3, anns_list, use_left, img, center, size,
                   region_list, P_list, flipped, affine,
                   mosaic, trans, buffers, result, opened>>

\* Lines 248-249.
\* Faulty variant: regression stays valid under jitter.
RegMaskAlways(aff) == 1
RegMask(aff) == IF ~aff THEN 1 ELSE 0
FlipMask(aff, flp) == IF ~aff /\ flp THEN 1 ELSE 0

\* Lines 211-253: the next annotation of "for i, a in enumerate(anns)": encode it,
\* test its keypoint against the region, and on acceptance stamp the heat map and
\* write row i of every buffer.  Row i >= max_objs does not exist: IndexError.
\* (The 3D regression, the 2D box and the Gaussian radius come from encode_label
\* and gaussian_radius and are not part of the rows kept here.)
InnerLoop ==
    /\ pc = "inner"
    /\ IF inner_it < Len(anns)
       THEN LET a == anns[inner_it + 1]
                cls == a.label
                locs == IF flipped THEN [a.locations EXCEPT ![1] = 0 - @] ELSE a.locations
                rot_y == IF flipped THEN 0 - a.rot_y ELSE a.rot_y
                point == affine_transform(KeyPoint(P, locs), trans_mat)
                accept == InRegion(point, region)
                point_int == PointInt(point)
            IN /\ i' = inner_it
               /\ inner_it' = inner_it + 1
               /\ encoded' = Append(encoded,
                     [src |-> outer_it - 1, pos |-> inner_it, ann |-> a, P |-> P,
                      region |-> region, point |-> point, accepted |-> accept])
               /\ IF accept
                  THEN /\ heat_map' = heat_map \cup {<<cls, point_int>>}
                       /\ IF i' < max_objs
                          THEN /\ slots' = [slots EXCEPT ![i'] =
                                    [cls_id |-> cls,
                                     proj_point |-> point_int,
                                     p_offset |-> << point.num[1] % point.den[1],
                                                     point.num[2] % point.den[2] >>,
                                     dimensions |-> a.dimensions,
                                     locations |-> locs,
                                     rotys |-> rot_y,
                                     reg_mask |-> RegMask(affine),
                                     flip_mask |-> FlipMask(affine, flipped)]]
                               /\ slot_src' = [slot_src EXCEPT ![i'] = <<outer_it - 1, inner_it>>]
                               /\ pc' = "inner"
                               /\ UNCHANGED err
                          ELSE /\ err' = "IndexError"
                               /\ pc' = "raised"
                               /\ UNCHANGED <<slots, slot_src>>
                  ELSE /\ pc' = "inner"
                       /\ UNCHANGED <<heat_map, slots, slot_src, err>>
       ELSE /\ pc' = "outer"
            /\ UNCHANGED <<i, inner_it, encoded, heat_map, slots, slot_src, err>>
    /\ UNCHANGED <<config, rnd, locals, mosaic, trans, region, outer_it, target, debug,
                   opened>>

\* Lines 256-281: the debug image, the extended matrix, the target's fields.
Finish ==
    /\ pc = "finish"
    /\ debug' = debug \cup {idx}
    /\ target' = [fields |-> TrainFields, P |-> ExtendP(P)]
    /\ pc' = "returned"
    /\ UNCHANGED <<config, rnd, locals, mosaic, trans, buffers, loop, err, opened>>

Next ==
    \/ \E k \in 1..self.num_samples : GetItem(k)
    \/ SelectView
    \/ Flip
    \/ Jitter
    \/ MosaicFetch
    \/ MosaicCompose
    \/ Gaussian
    \/ Color
    \/ Transform
    \/ ReturnInference
    \/ AllocTargets
    \/ OuterLoop
    \/ InnerLoop
    \/ Finish

Spec == Init /\ [][Next]_vars

\* =============================================================== claims
Accepted == SelectSeq(encoded, LAMBDA e : e.accepted)
PrimarySize == <<ImageWidth(idx), ImageHeight(idx)>>
PrimaryDir == IF use_left THEN "image_2" ELSE "image_3"
AfterMosaic == pc \notin {"idle", "view", "flip", "jitter", "mosaic", "compose"}
Mismatch == AfterMosaic /\ fetches # <<>> /\ mosaic_img.size # PrimarySize
IsComposed == AfterMosaic /\ Len(anns_list) = 2
LastRow == <<0, 0, 0, 1>>

\* C1: in a returned train-mode sample the k-th accepted object, counted in
\* encounter order across the primary source and the mosaic partner from k = 0,
\* is the one held by slot k, so no accepted object is overwritten or misplaced.
C1_SlotsFollowRunningCounter ==
    (pc = "returned" /\ self.is_train) =>
        \A k \in 1..Len(Accepted) :
            k <= max_objs => slot_src[k - 1] = <<Accepted[k].src, Accepted[k].pos>>

\* C2: a train-mode call never signals an error, whatever the number and
\* positions of the accepted annotations, and at most max_objs slots are valid.
C2_NoErrorOnAnyAnnotationCount ==
    /\ err = "none"
    /\ Cardinality({k \in DOMAIN slots : slots[k].reg_mask = 1}) <= max_objs

\* C3: every slot written for an accepted object has reg_mask = 0 if the sample
\* was jittered and 1 otherwise, and flip_mask = 1 exactly when the sample was
\* flipped and not jittered.
C3_MasksFollowAugmentation ==
    \A k \in DOMAIN slots :
        slot_src[k] # << >> =>
            /\ slots[k].reg_mask = (IF affine THEN 0 ELSE 1)
            /\ slots[k].flip_mask = (IF flipped /\ ~affine THEN 1 ELSE 0)

C3_Witness ==
    /\ pc = "returned"
    /\ affine
    /\ \E k \in DOMAIN slots : slot_src[k] # << >>

\* C4: flip is never applied on the right camera view, and no mosaic partner is
\* fetched and no second source added in a sample that was flipped or jittered.
C4_AugmentationConsistent ==
    /\ flipped => use_left
    /\ (flipped \/ affine) =>
          /\ fetches = << >>
          /\ mosaic_idx = 0
          /\ Len(anns_list) <= 1 /\ Len(P_list) <= 1 /\ Len(region_list) <= 1

C4_Witness ==
    /\ pc = "returned"
    /\ flipped /\ affine
    /\ self.mosaic_prob > 0

\* C5: a mosaic partner is fetched only when a random draw against mosaic_prob
\* succeeds: the step from the mosaic gate to the fetch is taken only if the
\* generator's next output is below mosaic_prob.
C5_MosaicGatedByDraw ==
    [][(pc = "mosaic" /\ pc' = "compose") => rnd < self.mosaic_prob]_vars

\* C6: after a partner of another resolution was drawn, the sample is as if no
\* mosaic had been attempted: no error, the primary image untouched, one source
\* with the primary annotations and matrix, and the full grid as its region.
C6_MismatchLeavesPrimary ==
    Mismatch =>
        /\ anns_list = << ParseRows(LabelFile(idx), TRUE) >>
        /\ P_list = << IF use_left THEN CalibFile(idx).P2 ELSE CalibFile(idx).P3 >>
        /\ region_list = << <<0, output_width * Tenths, 0, output_height * Tenths>> >>
        /\ pc = "gaussian" => (err = "none" /\ img = ImageOpen(PrimaryDir, idx))

C6_Witness ==
    /\ Mismatch
    /\ pc = "gaussian"

\* C7 as stated: once a partner of another resolution was drawn, a second
\* partner index is drawn.
C7_RetriedOnMismatch ==
    Mismatch => Len(fetches) >= 2

\* C7 as amended: the partner fetch is never retried; a call draws at most one
\* partner index, and after a mismatch that first partner stays the only one.
C7_SingleFetch ==
    /\ Len(fetches) <= 1
    /\ Mismatch => fetches = << mosaic_idx >>

C7_Witness ==
    /\ pc = "returned"
    /\ Mismatch
    /\ Len(fetches) = 1

\* C8: in inference mode, whatever probabilities are configured, no view swap,
\* flip, jitter, mosaic or noise is applied, no label file is opened, and the
\* returned target has exactly the fields trans_mat and P, P being the left
\* camera's matrix with the row [0,0,0,1] appended.
C8_InferenceIsPlain ==
    ~self.is_train =>
        /\ use_left /\ ~flipped /\ ~affine
        /\ fetches = << >> /\ Len(anns_list) <= 1
        /\ img.noise = {}
        /\ \A f \in opened : f[1] \notin {"label_2", "image_3"}
        /\ pc \in {"flip", "jitter", "mosaic", "gaussian", "color", "transform"} =>
              img = ImageOpen("image_2", idx)
        /\ pc = "returned" =>
              /\ target.fields = {"trans_mat", "P"}
              /\ target.P = CalibFile(idx).P2 \o << LastRow >>

C8_Witness ==
    /\ ~self.is_train
    /\ pc = "returned"
    /\ \A n \in ProbNames : cfg[n] > 0

\* C9: in a mosaic-composed sample every annotation is projected with the matrix
\* of its own source and accepted exactly when its keypoint is strictly inside
\* its own source's region, the primary's being the columns left of
\* left_ratio * output_width and the partner's those right of it.
C9_OwnRegionAndMatrix ==
    IsComposed =>
        /\ region_list[1] = <<0, left_ratio * output_width, 0, output_height * Tenths>>
        /\ region_list[2] = <<left_ratio * output_width, output_width * Tenths, 0,
                              output_height * Tenths>>
        /\ \A n \in 1..Len(encoded) :
              LET e == encoded[n]
                  own == e.src + 1
              IN /\ e.ann = anns_list[own][e.pos + 1]
                 /\ e.P = P_list[own]
                 /\ e.region = region_list[own]
                 /\ e.point = affine_transform(KeyPoint(P_list[own], e.ann.locations),
                                               trans_mat)
                 /\ e.accepted <=> InRegion(e.point, region_list[own])

C9_Witness ==
    /\ pc = "returned"
    /\ IsComposed
    /\ \E m, n \in 1..Len(encoded) :
          /\ encoded[m].src = 0 /\ encoded[m].accepted
          /\ encoded[n].src = 1 /\ encoded[n].accepted
    /\ \E n \in 1..Len(encoded) : encoded[n].src = 1 /\ ~encoded[n].accepted

\* C10: the matrix in the returned train-mode target is the primary frame's
\* active-view matrix (as mirrored by a flip) with the row [0,0,0,1] appended,
\* never the mosaic partner's.
C10_ReturnedPIsPrimary ==
    (pc = "returned" /\ self.is_train) =>
        target.P = P_list[1] \o << LastRow >>

====
